---------------------------- MODULE Spec2Model ----------------------------
(***************************************************************************)
(* Inbound-event ingestion pipeline of the CRM orchestrator                *)
(* (orchestrator_service/main.py: chat_inbound) together with the chat and *)
(* human-override admin routes (orchestrator_service/admin_routes.py) and  *)
(* the tenant allow-list (orchestrator_service/core/security.py).          *)
(*                                                                         *)
(* Every `await` of chat_inbound is one action, so concurrent requests     *)
(* interleave exactly at the suspension points of the code.  The storage   *)
(* layer (module db) and core.utils.normalize_phone are not part of the    *)
(* sources at hand; the operators that stand for them follow the design    *)
(* document and are marked as such.                                        *)
(***************************************************************************)
EXTENDS Integers, Sequences, FiniteSets, TLC

VARIABLES
    now,        \* wall clock, in milliseconds
    tenants,    \* table tenants: set of rows [id, bot_phone_number]
    inbound,    \* table inbound_messages (the ledger): key -> [status, error]
    leads,      \* table leads: set of rows
    chat,       \* table chat_messages, in creation order
    req,        \* the chat_inbound requests: locals and position of each
    events,     \* what was emitted on the event bus, in order
    outbox,     \* background tasks handed to send_to_whatsapp_task
    lastAdmin,  \* the last admin call and its answer
    crm,        \* the last CRM route call and its answer
    ops,        \* the human-override calls, in order of arrival
    clients,    \* table clients, in creation order (the id is the position)
    calls       \* the CRM and tenant-administration calls, in order of arrival

vars == <<now, tenants, inbound, leads, chat, req, events, outbox, lastAdmin,
          crm, ops, clients, calls>>

---------------------------------------------------------------------------
(* Bounds of the model *)

\* number of chat_inbound requests that may be in flight together
NReq == 2
\* the clock stops advancing at this time
MaxTime == 2
\* number of admin calls that write (send, toggle, remove-silence)
MaxAdminWrites == 1
\* number of calls to the override routes
MaxOverrideCalls == 2

Reqs == 1..NReq

---------------------------------------------------------------------------
(* Program constants *)

\* main.py:152  tenant_id = 1
DefaultTenant == 1
\* admin_routes.py:35 and :131  duration default, milliseconds
DefaultDurationMs == 86400000
\* main.py:178  get_chat_history(..., limit=15, ...)
HistoryLimit == 15
\* admin_routes.py:102  raise HTTPException(status_code=403)
Forbidden == 403

None == "None"
DefaultProvider == "ycloud"

\* Python truthiness of an optional string: None and "" are falsy
Falsy(v) == v \in {None, ""}
\* Python `a or b` on optional strings
OrElse(a, b) == IF Falsy(a) THEN b ELSE a

---------------------------------------------------------------------------
(* Inputs *)

\* JSON bodies posted to /chat.  The first three are distinct provider
\* events of one sender; they resolve to tenant 7 (matching bot number), to
\* the default tenant (no to_number) and to the default tenant (no match).
CoreBodies ==
    { [provider |-> "x", event_id |-> "e1", provider_message_id |-> "m1",
       from_number |-> "+100", to_number |-> "+200", text |-> "hi",
       correlation_id |-> "c1"],
      [provider |-> None, event_id |-> "e2", provider_message_id |-> "m2",
       from_number |-> "+100", to_number |-> None, text |-> "hi",
       correlation_id |-> "c2"],
      [provider |-> None, event_id |-> "e3", provider_message_id |-> "m3",
       from_number |-> "+100", to_number |-> "+999", text |-> "yo",
       correlation_id |-> "c3"] }

\* JSON bodies with missing fields: one without text, one without
\* from_number, two distinct events carrying neither provider_message_id nor
\* event_id, and two events where the event_id of the one equals the
\* provider_message_id of the other.
IntakeBodies ==
    { [provider |-> None, event_id |-> "e4", provider_message_id |-> "m4",
       from_number |-> "+100", to_number |-> None, text |-> None,
       correlation_id |-> "c4"],
      [provider |-> None, event_id |-> "e5", provider_message_id |-> "m5",
       from_number |-> None, to_number |-> None, text |-> "hi",
       correlation_id |-> "c5"],
      [provider |-> None, event_id |-> None, provider_message_id |-> None,
       from_number |-> "+100", to_number |-> None, text |-> "hi",
       correlation_id |-> "c6"],
      [provider |-> None, event_id |-> None, provider_message_id |-> None,
       from_number |-> "+101", to_number |-> None, text |-> "yo",
       correlation_id |-> "c7"],
      [provider |-> None, event_id |-> "x", provider_message_id |-> None,
       from_number |-> "+100", to_number |-> None, text |-> "a",
       correlation_id |-> "c8"],
      [provider |-> None, event_id |-> "e9", provider_message_id |-> "x",
       from_number |-> "+101", to_number |-> None, text |-> "b",
       correlation_id |-> "c9"] }

\* the events redelivered concurrently: two events of one conversation
ConcurrentBodies == {b \in CoreBodies : b.provider_message_id \in {"m2", "m3"}}

\* durations posted with an activation: absent (the default) and 1 ms
CoreDurations == {<< >>, <<1>>}

\* what the agent capability answers (opaque to the pipeline)
AgentOutput == "re"

\* the tenants table after installation
InitialTenants ==
    { [id |-> 1, bot_phone_number |-> "+300"],
      [id |-> 7, bot_phone_number |-> "+200"] }

TenantIds == {1, 7}

---------------------------------------------------------------------------
(* Storage layer: module db *)

\* db.try_insert_inbound: conditional insert keyed by
\* (provider, provider_message_id); TRUE iff the row was absent
try_insert_inbound_is_new(rows, key) == key \notin DOMAIN rows

try_insert_inbound_rows(rows, key) ==
    IF key \in DOMAIN rows THEN rows
    ELSE rows @@ (key :> [status |-> "received", error |-> ""])

\* db.mark_inbound_processing / mark_inbound_done / mark_inbound_failed
mark_inbound(rows, key, status, error) ==
    [k \in DOMAIN rows |->
        IF k = key THEN [status |-> status, error |-> error] ELSE rows[k]]

\* INSERT INTO leads: the row gets the next id of the table's sequence and
\* starts without override
NewLead(rows, tenant_id, phone, status) ==
    [id |-> Cardinality(rows) + 1, tenant_id |-> tenant_id, phone_number |-> phone,
     status |-> status, human_handoff_requested |-> FALSE,
     human_override_until |-> << >>]

\* db.ensure_lead_exists: creates the lead of (tenant, phone) if absent
ensure_lead_exists(rows, tenant_id, phone) ==
    IF \E l \in rows : l.tenant_id = tenant_id /\ l.phone_number = phone
    THEN rows
    ELSE rows \cup { NewLead(rows, tenant_id, phone, "new") }

\* db.append_chat_message
append_chat_message(rows, from_number, role, content, correlation_id, tenant_id) ==
    Append(rows, [id |-> Len(rows) + 1, tenant_id |-> tenant_id,
                  from_number |-> from_number, role |-> role,
                  content |-> content, correlation_id |-> correlation_id])

\* the rows of one conversation, oldest first
RECURSIVE Conversation(_, _, _)
Conversation(rows, from_number, tenant_id) ==
    IF rows = << >> THEN << >>
    ELSE LET rest == Conversation(SubSeq(rows, 1, Len(rows) - 1), from_number, tenant_id)
             last == rows[Len(rows)]
         IN IF last.from_number = from_number /\ last.tenant_id = tenant_id
            THEN Append(rest, last) ELSE rest

\* db.get_chat_history: the most recent `limit` messages, oldest first
get_chat_history(rows, from_number, limit, tenant_id) ==
    LET conv == Conversation(rows, from_number, tenant_id)
    IN IF Len(conv) <= limit THEN conv
       ELSE SubSeq(conv, Len(conv) - limit + 1, Len(conv))

---------------------------------------------------------------------------
(* chat_inbound, main.py:125-204 *)

IdleReq ==
    [pc |-> "idle", key |-> <<"", "">>, from_number |-> "", text |-> "",
     to_number |-> "", correlation_id |-> "", tenant_id |-> 0,
     is_new |-> FALSE, cur |-> 0, history |-> << >>, invoked |-> FALSE,
     output |-> "", status |-> "", send |-> FALSE, http |-> 0, error |-> "",
     override_on_arrival |-> "off", override_at_agent |-> "off"]

\* main.py:139-141: the deduplication key
EventKey(b) ==
    LET event_id == OrElse(b.event_id, "")
    IN << OrElse(b.provider, DefaultProvider),
          OrElse(b.provider_message_id, event_id) >>

\* ResolveTenant as it would be if the bot number were never looked up
ResolveTenant_AlwaysDefault(rows, to_number) == DefaultTenant

\* main.py:151-159: tenant by bot phone number, or the default
ResolveTenant(rows, to_number) ==
    IF Falsy(to_number) THEN DefaultTenant
    ELSE IF \E t \in rows : t.bot_phone_number = to_number
         THEN (CHOOSE t \in rows : t.bot_phone_number = to_number).id
         ELSE DefaultTenant

\* What the human-override register says about (tenant, phone) at time t:
\* "held" while the flag is set and the expiry lies in the future, "lapsed"
\* when the flag is set but the expiry has passed, "off" otherwise.
OverrideState(rows, tenant_id, phone, t) ==
    IF \E l \in rows : /\ l.tenant_id = tenant_id /\ l.phone_number = phone
                       /\ l.human_handoff_requested
    THEN IF \E l \in rows : /\ l.tenant_id = tenant_id /\ l.phone_number = phone
                            /\ l.human_handoff_requested
                            /\ l.human_override_until # << >>
                            /\ l.human_override_until[1] > t
         THEN "held" ELSE "lapsed"
    ELSE "off"

\* a request that ends with an exception leaving chat_inbound
Raise(r, code, detail) ==
    req' = [req EXCEPT ![r].pc = "raised", ![r].http = code, ![r].error = detail]

\* a failure inside the try block: control passes to the except clause
Caught(r, detail) ==
    req' = [req EXCEPT ![r].pc = "except", ![r].error = detail]

\* main.py:135-159: parse the body, validate, resolve the tenant.
\* `ready` is the webhook source's condition for posting the event.
Receive(r, b, fault, ready) ==
    /\ req[r].pc = "idle"
    /\ ready
    /\ \A q \in Reqs : q < r => req[q].pc # "idle"  \* requests are numbered by arrival
    /\ LET from_number == OrElse(b.from_number, "")
           text == OrElse(b.text, "")
           parsed == [req[r] EXCEPT !.key = EventKey(b),
                                    !.from_number = from_number,
                                    !.text = text,
                                    !.to_number = b.to_number,
                                    !.correlation_id = OrElse(b.correlation_id, "")]
       IN IF from_number = ""
          THEN req' = [req EXCEPT ![r] = [parsed EXCEPT !.pc = "raised", !.http = 400,
                                    !.error = "from_number and text required"]]
          ELSE IF fault /\ ~Falsy(b.to_number)
          THEN req' = [req EXCEPT ![r] = [parsed EXCEPT !.pc = "raised", !.http = 500,
                                    !.error = "resolve_tenant"]]
          ELSE LET tenant_id == ResolveTenant(tenants, b.to_number)
               IN req' = [req EXCEPT ![r] = [parsed EXCEPT !.pc = "resolved",
                                    !.tenant_id = tenant_id,
                                    !.override_on_arrival =
                                        OverrideState(leads, tenant_id, from_number, now)]]
    /\ UNCHANGED <<clients, calls, crm, ops, now, tenants, inbound, leads, chat, events, outbox, lastAdmin>>

\* TryInsert as it would be without `if not is_new: return duplicate`
TryInsert_NoDuplicateAnswer(r, fault) ==
    /\ req[r].pc = "resolved"
    /\ IF fault
       THEN Raise(r, 500, "try_insert_inbound") /\ UNCHANGED inbound
       ELSE /\ inbound' = try_insert_inbound_rows(inbound, req[r].key)
            /\ req' = [req EXCEPT ![r].pc = "new", ![r].is_new = TRUE]
    /\ UNCHANGED <<clients, calls, crm, ops, now, tenants, leads, chat, events, outbox, lastAdmin>>

\* TryInsert as it would be with mark_inbound_processing called before the
\* duplicate test
TryInsert_MarksBeforeTest(r, fault) ==
    /\ req[r].pc = "resolved"
    /\ IF fault
       THEN Raise(r, 500, "try_insert_inbound") /\ UNCHANGED inbound
       ELSE LET is_new == try_insert_inbound_is_new(inbound, req[r].key)
            IN /\ inbound' = mark_inbound(try_insert_inbound_rows(inbound, req[r].key),
                                          req[r].key, "processing", "")
               /\ IF ~is_new
                  THEN req' = [req EXCEPT ![r].pc = "returned", ![r].http = 200,
                                          ![r].status = "duplicate", ![r].send = FALSE]
                  ELSE req' = [req EXCEPT ![r].pc = "processing", ![r].is_new = TRUE]
    /\ UNCHANGED <<clients, calls, crm, ops, now, tenants, leads, chat, events, outbox, lastAdmin>>

\* main.py:161-165: the ledger insert and the duplicate answer
TryInsert(r, fault) ==
    /\ req[r].pc = "resolved"
    /\ IF fault
       THEN Raise(r, 500, "try_insert_inbound") /\ UNCHANGED inbound
       ELSE LET is_new == try_insert_inbound_is_new(inbound, req[r].key)
            IN /\ inbound' = try_insert_inbound_rows(inbound, req[r].key)
               /\ IF ~is_new
                  THEN req' = [req EXCEPT ![r].pc = "returned", ![r].http = 200,
                                          ![r].status = "duplicate", ![r].send = FALSE]
                  ELSE req' = [req EXCEPT ![r].pc = "new", ![r].is_new = TRUE]
    /\ UNCHANGED <<clients, calls, crm, ops, now, tenants, leads, chat, events, outbox, lastAdmin>>

\* main.py:167: outside the try block
MarkProcessing(r, fault) ==
    /\ req[r].pc = "new"
    /\ IF fault
       THEN Raise(r, 500, "mark_inbound_processing") /\ UNCHANGED inbound
       ELSE /\ inbound' = mark_inbound(inbound, req[r].key, "processing", "")
            /\ req' = [req EXCEPT ![r].pc = "processing"]
    /\ UNCHANGED <<clients, calls, crm, ops, now, tenants, leads, chat, events, outbox, lastAdmin>>

\* EnsureLead as it would be if ensuring the contact also reset its override
EnsureLead_ResetsOverride(r, fault) ==
    /\ req[r].pc = "processing"
    /\ IF fault
       THEN Caught(r, "ensure_lead_exists") /\ UNCHANGED leads
       ELSE /\ leads' = { IF /\ l.tenant_id = req[r].tenant_id
                             /\ l.phone_number = req[r].from_number
                          THEN [l EXCEPT !.human_handoff_requested = FALSE,
                                         !.human_override_until = << >>]
                          ELSE l :
                          l \in ensure_lead_exists(leads, req[r].tenant_id,
                                                   req[r].from_number) }
            /\ req' = [req EXCEPT ![r].pc = "ensured"]
    /\ UNCHANGED <<clients, calls, crm, ops, now, tenants, inbound, chat, events, outbox, lastAdmin>>

\* main.py:169-171
EnsureLead(r, fault) ==
    /\ req[r].pc = "processing"
    /\ IF fault
       THEN Caught(r, "ensure_lead_exists") /\ UNCHANGED leads
       ELSE /\ leads' = ensure_lead_exists(leads, req[r].tenant_id, req[r].from_number)
            /\ req' = [req EXCEPT ![r].pc = "ensured"]
    /\ UNCHANGED <<clients, calls, crm, ops, now, tenants, inbound, chat, events, outbox, lastAdmin>>

\* main.py:173-175
AppendUser(r, fault) ==
    /\ req[r].pc = "ensured"
    /\ IF fault
       THEN Caught(r, "append_chat_message") /\ UNCHANGED chat
       ELSE /\ chat' = append_chat_message(chat, req[r].from_number, "user",
                           req[r].text, req[r].correlation_id, req[r].tenant_id)
            /\ req' = [req EXCEPT ![r].pc = "appended", ![r].cur = Len(chat) + 1]
    /\ UNCHANGED <<clients, calls, crm, ops, now, tenants, inbound, leads, events, outbox, lastAdmin>>

\* main.py:179-181: drop the last row when it looks like the current turn
ExcludeCurrent(history_raw, text) ==
    IF /\ history_raw # << >>
       /\ history_raw[Len(history_raw)].content = text
       /\ history_raw[Len(history_raw)].role = "user"
    THEN SubSeq(history_raw, 1, Len(history_raw) - 1)
    ELSE history_raw

\* main.py:183-188: only user and assistant rows become agent messages
RECURSIVE LcHistory(_)
LcHistory(history_raw) ==
    IF history_raw = << >> THEN << >>
    ELSE LET m == Head(history_raw)
         IN IF m.role \in {"user", "assistant"}
            THEN <<m>> \o LcHistory(Tail(history_raw))
            ELSE LcHistory(Tail(history_raw))

\* main.py:177-188
ReadHistory(r, fault) ==
    /\ req[r].pc = "appended"
    /\ IF fault
       THEN Caught(r, "get_chat_history")
       ELSE LET history_raw == get_chat_history(chat, req[r].from_number,
                                                HistoryLimit, req[r].tenant_id)
            IN req' = [req EXCEPT ![r].pc = "history",
                          ![r].history = LcHistory(ExcludeCurrent(history_raw, req[r].text))]
    /\ UNCHANGED <<clients, calls, crm, ops, now, tenants, inbound, leads, chat, events, outbox, lastAdmin>>

\* InvokeAgent as it would be if the conversation were held for the human
\* whenever the stored flag is set, without looking at the expiry
InvokeAgent_TrustsFlag(r, fault) ==
    /\ req[r].pc = "history"
    /\ LET state == OverrideState(leads, req[r].tenant_id, req[r].from_number, now)
       IN IF state # "off"
          THEN /\ inbound' = mark_inbound(inbound, req[r].key, "done", "")
               /\ req' = [req EXCEPT ![r].pc = "returned", ![r].http = 200,
                                     ![r].status = "ok", ![r].send = FALSE,
                                     ![r].override_at_agent = state]
          ELSE /\ inbound' = inbound
               /\ req' = [req EXCEPT ![r].pc = "agent", ![r].invoked = TRUE,
                                     ![r].output = AgentOutput,
                                     ![r].override_at_agent = state]
    /\ UNCHANGED <<clients, calls, crm, ops, now, tenants, leads, chat, events, outbox, lastAdmin>>

\* main.py:190-194: the agent is invoked without consulting the override
\* register; override_at_agent records what the register said at that moment
InvokeAgent(r, fault) ==
    /\ req[r].pc = "history"
    /\ IF fault
       THEN req' = [req EXCEPT ![r].pc = "except", ![r].error = "agent",
                               ![r].invoked = TRUE,
                               ![r].override_at_agent =
                                   OverrideState(leads, req[r].tenant_id,
                                                 req[r].from_number, now)]
       ELSE req' = [req EXCEPT ![r].pc = "agent", ![r].invoked = TRUE,
                               ![r].output = AgentOutput,
                               ![r].override_at_agent =
                                   OverrideState(leads, req[r].tenant_id,
                                                 req[r].from_number, now)]
    /\ UNCHANGED <<clients, calls, crm, ops, now, tenants, inbound, leads, chat, events, outbox, lastAdmin>>

\* main.py:196-198
AppendReply(r, fault) ==
    /\ req[r].pc = "agent"
    /\ IF fault
       THEN Caught(r, "append_chat_message") /\ UNCHANGED chat
       ELSE /\ chat' = append_chat_message(chat, req[r].from_number, "assistant",
                           req[r].output, req[r].correlation_id, req[r].tenant_id)
            /\ req' = [req EXCEPT ![r].pc = "replied"]
    /\ UNCHANGED <<clients, calls, crm, ops, now, tenants, inbound, leads, events, outbox, lastAdmin>>

\* MarkDone as it would be if ok were answered without closing the ledger row
MarkDone_LeavesRowOpen(r, fault) ==
    /\ req[r].pc = "replied"
    /\ IF fault
       THEN Caught(r, "mark_inbound_done") /\ UNCHANGED inbound
       ELSE /\ inbound' = inbound
            /\ req' = [req EXCEPT ![r].pc = "returned", ![r].http = 200,
                                  ![r].status = "ok", ![r].send = TRUE]
    /\ UNCHANGED <<clients, calls, crm, ops, now, tenants, leads, chat, events, outbox, lastAdmin>>

\* main.py:199-200
MarkDone(r, fault) ==
    /\ req[r].pc = "replied"
    /\ IF fault
       THEN Caught(r, "mark_inbound_done") /\ UNCHANGED inbound
       ELSE /\ inbound' = mark_inbound(inbound, req[r].key, "done", "")
            /\ req' = [req EXCEPT ![r].pc = "returned", ![r].http = 200,
                                  ![r].status = "ok", ![r].send = TRUE]
    /\ UNCHANGED <<clients, calls, crm, ops, now, tenants, leads, chat, events, outbox, lastAdmin>>

\* HandleFailure as it would be if the error were answered without recording
\* the failure in the ledger
HandleFailure_AnswersOnly(r, fault) ==
    /\ req[r].pc = "except"
    /\ IF fault
       THEN Raise(r, 500, "mark_inbound_failed") /\ UNCHANGED inbound
       ELSE /\ inbound' = inbound
            /\ req' = [req EXCEPT ![r].pc = "returned", ![r].http = 200,
                                  ![r].status = "error", ![r].send = FALSE]
    /\ UNCHANGED <<clients, calls, crm, ops, now, tenants, leads, chat, events, outbox, lastAdmin>>

\* main.py:201-204: the except clause
HandleFailure(r, fault) ==
    /\ req[r].pc = "except"
    /\ IF fault
       THEN Raise(r, 500, "mark_inbound_failed") /\ UNCHANGED inbound
       ELSE /\ inbound' = mark_inbound(inbound, req[r].key, "failed", req[r].error)
            /\ req' = [req EXCEPT ![r].pc = "returned", ![r].http = 200,
                                  ![r].status = "error", ![r].send = FALSE]
    /\ UNCHANGED <<clients, calls, crm, ops, now, tenants, leads, chat, events, outbox, lastAdmin>>

---------------------------------------------------------------------------
(* core/security.py: the tenants an identity may address *)

\* the identities that pass verify_admin_token (security.py:12-46)
Users ==
    { [user_id |-> "u-ceo", role |-> "ceo"],
      [user_id |-> "u-pro", role |-> "professional"],
      [user_id |-> "u-sec", role |-> "secretary"] }

\* further identities: a setter whose staff row has no tenant id, and a closer
\* whose user_id is not a UUID (uuid.UUID raises ValueError)
Identities ==
    Users \cup { [user_id |-> "u-set", role |-> "setter"],
                 [user_id |-> "not-a-uuid", role |-> "closer"] }

\* table professionals: the staff rows; tenant_id << >> stands for NULL
Professionals ==
    { [user_id |-> "u-pro", tenant_id |-> <<7>>],
      [user_id |-> "u-set", tenant_id |-> << >>] }

\* uuid.UUID(user_data.user_id) succeeds
ValidUuid(user_id) == user_id # "not-a-uuid"

\* SELECT tenant_id FROM professionals WHERE user_id = $1 (fetchval):
\* << >> stands for None
StaffTenant(u) ==
    IF \E p \in Professionals : p.user_id = u.user_id
    THEN (CHOOSE p \in Professionals : p.user_id = u.user_id).tenant_id
    ELSE << >>

\* SELECT id FROM tenants ORDER BY id ASC LIMIT 1 (fetchval)
FirstTenant(rows) ==
    IF rows = {} THEN << >>
    ELSE << (CHOOSE t \in rows : \A o \in rows : t.id <= o.id).id >>

\* security.py:67-71: the first tenant, or 1
FirstTenantOrDefault(rows, db_fault) ==
    IF db_fault = "tenants" THEN 1
    ELSE IF FirstTenant(rows) # << >> THEN FirstTenant(rows)[1] ELSE 1

\* security.py:49-71.  db_fault names the query that raises, if any.  Every
\* exception of the staff lookup is swallowed and the first tenant is used.
get_resolved_tenant_id(u, rows, db_fault) ==
    IF /\ ValidUuid(u.user_id)
       /\ db_fault # "professionals"
       /\ StaffTenant(u) # << >>
    THEN StaffTenant(u)[1]
    ELSE FirstTenantOrDefault(rows, db_fault)

\* security.py:74-95.  A ValueError of uuid.UUID is swallowed by the inner
\* try; any other exception of the staff lookup reaches the outer except,
\* which answers [1].
get_allowed_tenant_ids(u, rows, db_fault) ==
    IF u.role = "ceo"
    THEN IF db_fault = "tenants" THEN {1}
         ELSE IF rows # {} THEN {t.id : t \in rows} ELSE {1}
    ELSE IF ~ValidUuid(u.user_id) THEN {FirstTenantOrDefault(rows, db_fault)}
    ELSE IF db_fault = "professionals" THEN {1}
    ELSE IF StaffTenant(u) # << >> THEN {StaffTenant(u)[1]}
    ELSE {FirstTenantOrDefault(rows, db_fault)}

\* security.py:98-106
get_current_user_context(u, rows, db_fault) ==
    [user_id |-> u.user_id, role |-> u.role,
     tenant_id |-> get_resolved_tenant_id(u, rows, db_fault)]

DbFaults == {"none", "professionals", "tenants"}

---------------------------------------------------------------------------
(* admin_routes.py: chat and human-override routes *)

\* core.utils.normalize_phone: canonical international form
normalize_phone(phone) == IF phone = "100" THEN "+100" ELSE phone

AdminAnswer(op, tenant_id, phone, allowed, code, status, until) ==
    [op |-> op, tenant_id |-> tenant_id, phone |-> phone, allowed |-> allowed,
     code |-> code, status |-> status, until |-> until]

\* `if tenant_id not in allowed_ids: raise HTTPException(status_code=403)`
Rejected(op, tenant_id, phone, allowed) ==
    /\ lastAdmin' = AdminAnswer(op, tenant_id, phone, allowed, Forbidden, "", << >>)
    /\ UNCHANGED <<clients, calls, crm, ops, now, tenants, inbound, leads, chat, req, events, outbox>>

\* admin_routes.py:100-104
get_chat_sessions(u, tenant_id, db_fault) ==
    LET allowed_ids == get_allowed_tenant_ids(u, tenants, db_fault)
    IN IF tenant_id \notin allowed_ids
       THEN Rejected("get_chat_sessions", tenant_id, "", allowed_ids)
       ELSE /\ lastAdmin' = AdminAnswer("get_chat_sessions", tenant_id, "",
                                        allowed_ids, 200, "ok", << >>)
            /\ UNCHANGED <<clients, calls, crm, ops, now, tenants, inbound, leads, chat, req, events, outbox>>

\* admin_routes.py:106-110
get_chat_messages(u, tenant_id, phone, db_fault) ==
    LET allowed_ids == get_allowed_tenant_ids(u, tenants, db_fault)
    IN IF tenant_id \notin allowed_ids
       THEN Rejected("get_chat_messages", tenant_id, phone, allowed_ids)
       ELSE /\ lastAdmin' = AdminAnswer("get_chat_messages", tenant_id, phone,
                                        allowed_ids, 200, "ok", << >>)
            /\ UNCHANGED <<clients, calls, crm, ops, now, tenants, inbound, leads, chat, req, events, outbox>>

\* send_chat_message as it would be if the operator's message took the place
\* of the latest stored message
send_chat_message_Overwrites(u, tenant_id, phone, message, db_fault) ==
    LET allowed_ids == get_allowed_tenant_ids(u, tenants, db_fault)
        sent == append_chat_message(chat, phone, "assistant", message,
                                    "uuid4", tenant_id)
    IN IF tenant_id \notin allowed_ids
       THEN Rejected("send_chat_message", tenant_id, phone, allowed_ids)
       ELSE /\ chat' = IF chat = << >> THEN sent
                       ELSE [chat EXCEPT ![Len(chat)] =
                                [sent[Len(sent)] EXCEPT !.id = Len(chat)]]
            /\ outbox' = Append(outbox, [phone |-> phone, message |-> message,
                                         business_number |-> "default",
                                         state |-> "queued"])
            /\ lastAdmin' = AdminAnswer("send_chat_message", tenant_id, phone,
                                        allowed_ids, 200, "sent", << >>)
            /\ UNCHANGED <<clients, calls, crm, ops, now, tenants, inbound, leads, req, events>>

\* admin_routes.py:112-119
send_chat_message(u, tenant_id, phone, message, db_fault) ==
    LET allowed_ids == get_allowed_tenant_ids(u, tenants, db_fault)
    IN IF tenant_id \notin allowed_ids
       THEN Rejected("send_chat_message", tenant_id, phone, allowed_ids)
       ELSE /\ chat' = append_chat_message(chat, phone, "assistant", message,
                                           "uuid4", tenant_id)
            /\ outbox' = Append(outbox, [phone |-> phone, message |-> message,
                                         business_number |-> "default",
                                         state |-> "queued"])
            /\ lastAdmin' = AdminAnswer("send_chat_message", tenant_id, phone,
                                        allowed_ids, 200, "sent", << >>)
            /\ UNCHANGED <<clients, calls, crm, ops, now, tenants, inbound, leads, req, events>>

\* send_to_whatsapp_task as it would be if a failed send took the stored
\* message back
send_to_whatsapp_task_Retracts(i, fault) ==
    /\ i \in DOMAIN outbox
    /\ outbox[i].state = "queued"
    /\ outbox' = [outbox EXCEPT ![i].state = IF fault THEN "failed" ELSE "sent"]
    /\ chat' = IF fault /\ chat # << >> THEN SubSeq(chat, 1, Len(chat) - 1) ELSE chat
    /\ UNCHANGED <<clients, calls, crm, ops, now, tenants, inbound, leads, req, events, lastAdmin>>

\* admin_routes.py:61-72: the background task; a failed send is only logged
send_to_whatsapp_task(i, fault) ==
    /\ i \in DOMAIN outbox
    /\ outbox[i].state = "queued"
    /\ outbox' = [outbox EXCEPT ![i].state = IF fault THEN "failed" ELSE "sent"]
    /\ UNCHANGED <<clients, calls, crm, ops, now, tenants, inbound, leads, chat, req, events, lastAdmin>>

\* admin_routes.py:121-124
mark_chat_session_read(u, tenant_id, phone, db_fault) ==
    LET allowed_ids == get_allowed_tenant_ids(u, tenants, db_fault)
    IN IF tenant_id \notin allowed_ids
       THEN Rejected("mark_chat_session_read", tenant_id, phone, allowed_ids)
       ELSE /\ lastAdmin' = AdminAnswer("mark_chat_session_read", tenant_id, phone,
                                        allowed_ids, 200, "ok", << >>)
            /\ UNCHANGED <<clients, calls, crm, ops, now, tenants, inbound, leads, chat, req, events, outbox>>

\* UpdateOverride as it would be if clearing the flag left the expiry in place
UpdateOverride_KeepsExpiry(rows, tenant_id, norm_phone, phone, flag, until) ==
    { IF l.tenant_id = tenant_id /\ l.phone_number \in {norm_phone, phone}
      THEN IF flag THEN [l EXCEPT !.human_handoff_requested = TRUE,
                                  !.human_override_until = until]
                   ELSE [l EXCEPT !.human_handoff_requested = FALSE]
      ELSE l : l \in rows }

\* UPDATE leads SET human_handoff_requested = .., human_override_until = ..
\* WHERE tenant_id = $t AND (phone_number = $norm OR phone_number = $phone)
UpdateOverride(rows, tenant_id, norm_phone, phone, flag, until) ==
    { IF l.tenant_id = tenant_id /\ l.phone_number \in {norm_phone, phone}
      THEN [l EXCEPT !.human_handoff_requested = flag, !.human_override_until = until]
      ELSE l : l \in rows }

\* admin_routes.py:131: timedelta(milliseconds=payload.duration or 86400000);
\* None and 0 both select the default
EffectiveDuration(duration) ==
    IF duration = << >> \/ duration = <<0>> THEN DefaultDurationMs ELSE duration[1]

\* datetime.isoformat() of the expiry, as carried by events and answers
isoformat(dt) == <<"iso", dt>>

\* toggle_human_intervention as it would be without its allow-list test
toggle_human_intervention_Unchecked(u, tenant_id, phone, activate, duration, db_fault) ==
    LET allowed_ids == get_allowed_tenant_ids(u, tenants, db_fault)
        norm_phone == normalize_phone(phone)
        override_until == now + EffectiveDuration(duration)
    IN /\ leads' = UpdateOverride(leads, tenant_id, norm_phone, phone, activate,
                                  IF activate THEN <<override_until>> ELSE << >>)
       /\ events' = Append(events, [type |-> "HUMAN_OVERRIDE_CHANGED",
                                    phone_number |-> phone, tenant_id |-> tenant_id,
                                    enabled |-> activate,
                                    until |-> IF activate THEN isoformat(override_until)
                                                          ELSE << >>])
       /\ lastAdmin' = AdminAnswer("toggle_human_intervention", tenant_id, phone,
                                   allowed_ids, 200,
                                   IF activate THEN "activated" ELSE "deactivated",
                                   IF activate THEN isoformat(override_until) ELSE << >>)
       /\ UNCHANGED <<clients, calls, crm, ops, now, tenants, inbound, chat, req, outbox>>

\* admin_routes.py:126-144
toggle_human_intervention(u, tenant_id, phone, activate, duration, db_fault) ==
    LET allowed_ids == get_allowed_tenant_ids(u, tenants, db_fault)
        norm_phone == normalize_phone(phone)
        override_until == now + EffectiveDuration(duration)
    IN IF tenant_id \notin allowed_ids
       THEN Rejected("toggle_human_intervention", tenant_id, phone, allowed_ids)
       ELSE IF activate
       THEN /\ leads' = UpdateOverride(leads, tenant_id, norm_phone, phone,
                                       TRUE, <<override_until>>)
            /\ events' = Append(events, [type |-> "HUMAN_OVERRIDE_CHANGED",
                                         phone_number |-> phone, tenant_id |-> tenant_id,
                                         enabled |-> TRUE, until |-> isoformat(override_until)])
            /\ lastAdmin' = AdminAnswer("toggle_human_intervention", tenant_id, phone,
                                        allowed_ids, 200, "activated",
                                        isoformat(override_until))
            /\ UNCHANGED <<clients, calls, crm, ops, now, tenants, inbound, chat, req, outbox>>
       ELSE /\ leads' = UpdateOverride(leads, tenant_id, norm_phone, phone, FALSE, << >>)
            /\ events' = Append(events, [type |-> "HUMAN_OVERRIDE_CHANGED",
                                         phone_number |-> phone, tenant_id |-> tenant_id,
                                         enabled |-> FALSE, until |-> << >>])
            /\ lastAdmin' = AdminAnswer("toggle_human_intervention", tenant_id, phone,
                                        allowed_ids, 200, "deactivated", << >>)
            /\ UNCHANGED <<clients, calls, crm, ops, now, tenants, inbound, chat, req, outbox>>

\* admin_routes.py:150-159
remove_silence(u, tenant_id, phone, db_fault) ==
    LET allowed_ids == get_allowed_tenant_ids(u, tenants, db_fault)
        norm_phone == normalize_phone(phone)
    IN IF tenant_id \notin allowed_ids
       THEN Rejected("remove_silence", tenant_id, phone, allowed_ids)
       ELSE /\ leads' = UpdateOverride(leads, tenant_id, norm_phone, phone, FALSE, << >>)
            /\ events' = Append(events, [type |-> "HUMAN_OVERRIDE_CHANGED",
                                         phone_number |-> phone, tenant_id |-> tenant_id,
                                         enabled |-> FALSE, until |-> << >>])
            /\ lastAdmin' = AdminAnswer("remove_silence", tenant_id, phone,
                                        allowed_ids, 200, "removed", << >>)
            /\ UNCHANGED <<clients, calls, crm, ops, now, tenants, inbound, chat, req, outbox>>

\* The override routes step by step: the UPDATE and the emit are two awaits,
\* so calls interleave between them.  One record of ops per call: `at` is the
\* clock when override_until was computed, `applied` tells that the UPDATE
\* was executed, `event` is the position of the call's event on the bus
\* (0: none).
OverrideCall(op, u, tenant_id, phone, activate, duration) ==
    [op |-> op, user_id |-> u.user_id, tenant_id |-> tenant_id, phone |-> phone,
     activate |-> activate, duration |-> duration, allowed |-> {},
     pc |-> "called", at |-> 0, until |-> << >>, applied |-> FALSE, event |-> 0,
     code |-> 0, status |-> ""]

\* admin_routes.py:128-134, :139-141 and :152-157: the allow-list test, the
\* expiry and the UPDATE
OverrideWrite(op, u, tenant_id, phone, activate, duration, db_fault, fault) ==
    LET allowed_ids == get_allowed_tenant_ids(u, tenants, db_fault)
        norm_phone == normalize_phone(phone)
        override_until == now + EffectiveDuration(duration)
        call == [OverrideCall(op, u, tenant_id, phone, activate, duration)
                    EXCEPT !.allowed = allowed_ids, !.at = now]
    IN /\ op \in {"toggle_human_intervention", "remove_silence"}
       /\ op = "remove_silence" => ~activate
       /\ IF tenant_id \notin allowed_ids
          THEN /\ ops' = Append(ops, [call EXCEPT !.pc = "raised", !.code = Forbidden])
               /\ UNCHANGED leads
          ELSE IF fault
          THEN /\ ops' = Append(ops, [call EXCEPT !.pc = "raised", !.code = 500])
               /\ UNCHANGED leads
          ELSE IF activate
          THEN /\ leads' = UpdateOverride(leads, tenant_id, norm_phone, phone,
                                          TRUE, <<override_until>>)
               /\ ops' = Append(ops, [call EXCEPT !.pc = "written", !.applied = TRUE,
                                                  !.until = <<override_until>>])
          ELSE /\ leads' = UpdateOverride(leads, tenant_id, norm_phone, phone,
                                          FALSE, << >>)
               /\ ops' = Append(ops, [call EXCEPT !.pc = "written", !.applied = TRUE])
       /\ UNCHANGED <<clients, calls, crm, now, tenants, inbound, chat, req, events, outbox, lastAdmin>>

\* OverrideEmit as it would be if the event were published twice
OverrideEmit_Twice(i, fault) ==
    /\ i \in DOMAIN ops
    /\ ops[i].pc = "written"
    /\ LET event == [type |-> "HUMAN_OVERRIDE_CHANGED", phone_number |-> ops[i].phone,
                     tenant_id |-> ops[i].tenant_id, enabled |-> ops[i].activate,
                     until |-> IF ops[i].activate THEN isoformat(ops[i].until[1])
                                                  ELSE << >>]
       IN /\ events' = events \o <<event, event>>
          /\ ops' = [ops EXCEPT ![i].pc = "returned", ![i].code = 200,
                                ![i].event = Len(events) + 1,
                                ![i].status =
                                    IF ops[i].op = "remove_silence" THEN "removed"
                                    ELSE IF ops[i].activate THEN "activated"
                                    ELSE "deactivated"]
    /\ UNCHANGED <<clients, calls, crm, now, tenants, inbound, leads, chat, req, outbox, lastAdmin>>

\* admin_routes.py:136-137, :143-144 and :158-159: the emit and the answer
OverrideEmit(i, fault) ==
    /\ i \in DOMAIN ops
    /\ ops[i].pc = "written"
    /\ IF fault
       THEN /\ ops' = [ops EXCEPT ![i].pc = "raised", ![i].code = 500]
            /\ UNCHANGED events
       ELSE /\ events' = Append(events,
                   [type |-> "HUMAN_OVERRIDE_CHANGED", phone_number |-> ops[i].phone,
                    tenant_id |-> ops[i].tenant_id, enabled |-> ops[i].activate,
                    until |-> IF ops[i].activate THEN isoformat(ops[i].until[1])
                                                 ELSE << >>])
            /\ ops' = [ops EXCEPT ![i].pc = "returned", ![i].code = 200,
                                  ![i].event = Len(events) + 1,
                                  ![i].status =
                                      IF ops[i].op = "remove_silence" THEN "removed"
                                      ELSE IF ops[i].activate THEN "activated"
                                      ELSE "deactivated"]
    /\ UNCHANGED <<clients, calls, crm, now, tenants, inbound, leads, chat, req, outbox, lastAdmin>>

---------------------------------------------------------------------------
(* modules/crm_sales/routes.py *)

CrmAnswer(op, u, phone, tenant_id_override, db_fault, allowed, context_tenant, tenant_id, code, lead) ==
    [op |-> op, user_id |-> u.user_id, role |-> u.role, phone |-> phone,
     tenant_id_override |-> tenant_id_override, db_fault |-> db_fault,
     allowed |-> allowed, context_tenant |-> context_tenant,
     tenant_id |-> tenant_id, code |-> code, lead |-> lead]

\* routes.py:122-125: SELECT ... FROM leads WHERE tenant_id = $1 AND
\* (phone_number = $2 OR phone_number = $3); << >> stands for no row
LeadByPhone(rows, tenant_id, norm_phone, phone) ==
    LET found == {l \in rows : /\ l.tenant_id = tenant_id
                               /\ l.phone_number \in {norm_phone, phone}}
    IN IF found = {} THEN << >> ELSE << CHOOSE l \in found : TRUE >>

\* routes.py:108-150.  tenant_id_override is << >> when the query parameter
\* is absent.  An override outside the allowed set is not refused: the
\* tenant of the caller's context is used instead.
get_lead_context_by_phone(u, phone, tenant_id_override, db_fault) ==
    LET context == get_current_user_context(u, tenants, db_fault)
        allowed_ids == get_allowed_tenant_ids(u, tenants, db_fault)
        tenant_id == IF /\ tenant_id_override # << >>
                        /\ tenant_id_override[1] \in allowed_ids
                     THEN tenant_id_override[1]
                     ELSE context.tenant_id
        norm_phone == normalize_phone(phone)
    IN /\ crm' = CrmAnswer("get_lead_context_by_phone", u, phone, tenant_id_override,
                           db_fault, allowed_ids, context.tenant_id, tenant_id, 200,
                           LeadByPhone(leads, tenant_id, norm_phone, phone))
       /\ UNCHANGED <<clients, calls, ops, now, tenants, inbound, leads, chat, req, events, outbox,
                      lastAdmin>>

\* the locals of one CRM or tenant-administration call: its arguments, the
\* tenant of the caller, its position, the id of the row it created (0 when
\* none) and its answer
Call(op, u, tenant_id, phone, lead_id, client_id, pc, code, detail) ==
    [op |-> op, user_id |-> u.user_id, tenant_id |-> tenant_id, phone |-> phone,
     lead_id |-> lead_id, client_id |-> client_id, pc |-> pc, made |-> 0,
     code |-> code, detail |-> detail]

\* the call has answered
Finished(c) == c.pc \in {"returned", "raised"}

\* str.strip() on the phone numbers posted
strip(s) == IF s = "+101 " THEN "+101" ELSE s

\* SELECT id FROM leads WHERE tenant_id = $1 AND phone_number = $2
LeadExists(rows, tenant_id, phone) ==
    \E l \in rows : l.tenant_id = tenant_id /\ l.phone_number = phone

\* SELECT id FROM clients WHERE tenant_id = $1 AND phone_number = $2
ClientExists(rows, tenant_id, phone) ==
    \E k \in DOMAIN rows : rows[k].tenant_id = tenant_id /\ rows[k].phone_number = phone

\* INSERT INTO clients: the row gets the next id
NewClient(rows, tenant_id, phone, status) ==
    [id |-> Len(rows) + 1, tenant_id |-> tenant_id, phone_number |-> phone,
     status |-> status]

\* routes.py:76-93: create_lead up to the test of the existing row
create_lead_Select(u, phone) ==
    LET tenant_id == get_current_user_context(u, tenants, "none").tenant_id
    IN /\ calls' = Append(calls,
              IF LeadExists(leads, tenant_id, phone)
              THEN Call("create_lead", u, tenant_id, phone, 0, 0, "raised", 400,
                        "Lead with this phone number already exists")
              ELSE Call("create_lead", u, tenant_id, phone, 0, 0, "checked", 0, ""))
       /\ UNCHANGED <<clients, now, tenants, inbound, leads, chat, req, events, outbox, lastAdmin, crm, ops>>

\* routes.py:95-105: the INSERT of create_lead.  `unique` says whether the
\* leads table carries a unique index on (tenant_id, phone_number); then a
\* second row makes the statement raise, and nothing catches it.
create_lead_Insert(i, unique) ==
    /\ i \in DOMAIN calls
    /\ calls[i].op = "create_lead" /\ calls[i].pc = "checked"
    /\ LET c == calls[i]
           row == NewLead(leads, c.tenant_id, c.phone, "new")
       IN IF unique /\ LeadExists(leads, c.tenant_id, c.phone)
          THEN /\ calls' = [calls EXCEPT ![i].pc = "raised", ![i].code = 500,
                                         ![i].detail = "UniqueViolationError"]
               /\ UNCHANGED leads
          ELSE /\ leads' = leads \cup {row}
               /\ calls' = [calls EXCEPT ![i].pc = "returned", ![i].code = 201,
                                         ![i].made = row.id]
    /\ UNCHANGED <<clients, now, tenants, inbound, chat, req, events, outbox, lastAdmin, crm, ops>>

\* routes.py:364-376: create_client up to the test of the existing row
create_client_Select(u, phone) ==
    LET tenant_id == get_current_user_context(u, tenants, "none").tenant_id
    IN /\ calls' = Append(calls,
              IF ClientExists(clients, tenant_id, strip(phone))
              THEN Call("create_client", u, tenant_id, phone, 0, 0, "raised", 400,
                        "Ya existe un cliente con ese telefono en esta entidad.")
              ELSE Call("create_client", u, tenant_id, phone, 0, 0, "checked", 0, ""))
       /\ UNCHANGED <<clients, now, tenants, inbound, leads, chat, req, events, outbox, lastAdmin, crm, ops>>

\* routes.py:377-396: the INSERT of create_client, then `if payload.lead_id:`
\* on a ClientCreate, which has no field lead_id (models.py:68-75): the
\* attribute access raises after the row was inserted.
create_client_Insert(i, unique, fault) ==
    /\ i \in DOMAIN calls
    /\ calls[i].op = "create_client" /\ calls[i].pc = "checked"
    /\ LET c == calls[i]
           row == NewClient(clients, c.tenant_id, strip(c.phone), "active")
       IN IF fault
          THEN /\ calls' = [calls EXCEPT ![i].pc = "raised", ![i].code = 500,
                                         ![i].detail = "insert"]
               /\ UNCHANGED clients
          ELSE IF unique /\ ClientExists(clients, c.tenant_id, strip(c.phone))
          THEN /\ calls' = [calls EXCEPT ![i].pc = "raised", ![i].code = 500,
                                         ![i].detail = "UniqueViolationError"]
               /\ UNCHANGED clients
          ELSE /\ clients' = Append(clients, row)
               /\ calls' = [calls EXCEPT ![i].pc = "raised", ![i].code = 500,
                                         ![i].detail = "AttributeError",
                                         ![i].made = row.id]
    /\ UNCHANGED <<now, tenants, inbound, leads, chat, req, events, outbox, lastAdmin, crm, ops>>

\* routes.py:286-299: convert_lead_to_client reads the lead
convert_lead_to_client_SelectLead(u, lead_id) ==
    LET tenant_id == get_current_user_context(u, tenants, "none").tenant_id
        found == {l \in leads : l.id = lead_id /\ l.tenant_id = tenant_id}
    IN /\ calls' = Append(calls,
              IF found = {}
              THEN Call("convert_lead_to_client", u, tenant_id, "", lead_id, 0,
                        "raised", 404, "Lead not found")
              ELSE Call("convert_lead_to_client", u, tenant_id,
                        (CHOOSE l \in found : TRUE).phone_number, lead_id, 0,
                        "lead", 0, ""))
       /\ UNCHANGED <<clients, now, tenants, inbound, leads, chat, req, events, outbox, lastAdmin, crm, ops>>

\* routes.py:300-309: the test of an existing client with the lead's phone
convert_lead_to_client_SelectClient(i, fault) ==
    /\ i \in DOMAIN calls
    /\ calls[i].op = "convert_lead_to_client" /\ calls[i].pc = "lead"
    /\ LET c == calls[i]
       IN calls' = IF fault
                   THEN [calls EXCEPT ![i].pc = "raised", ![i].code = 500,
                                      ![i].detail = "select"]
                   ELSE IF ClientExists(clients, c.tenant_id, c.phone)
                   THEN [calls EXCEPT ![i].pc = "raised", ![i].code = 400,
                                      ![i].detail = "Ya existe un cliente con ese telefono."]
                   ELSE [calls EXCEPT ![i].pc = "checked"]
    /\ UNCHANGED <<clients, now, tenants, inbound, leads, chat, req, events, outbox, lastAdmin, crm, ops>>

\* routes.py:310-320: the INSERT of the client
convert_lead_to_client_Insert(i, unique, fault) ==
    /\ i \in DOMAIN calls
    /\ calls[i].op = "convert_lead_to_client" /\ calls[i].pc = "checked"
    /\ LET c == calls[i]
           row == NewClient(clients, c.tenant_id, c.phone, "active")
       IN IF fault
          THEN /\ calls' = [calls EXCEPT ![i].pc = "raised", ![i].code = 500,
                                         ![i].detail = "insert"]
               /\ UNCHANGED clients
          ELSE IF unique /\ ClientExists(clients, c.tenant_id, c.phone)
          THEN /\ calls' = [calls EXCEPT ![i].pc = "raised", ![i].code = 500,
                                         ![i].detail = "UniqueViolationError"]
               /\ UNCHANGED clients
          ELSE /\ clients' = Append(clients, row)
               /\ calls' = [calls EXCEPT ![i].pc = "inserted", ![i].made = row.id]
    /\ UNCHANGED <<now, tenants, inbound, leads, chat, req, events, outbox, lastAdmin, crm, ops>>

\* UPDATE leads SET status = 'closed_won' WHERE id = $1 AND tenant_id = $2
CloseLead(rows, lead_id, tenant_id) ==
    { IF l.id = lead_id /\ l.tenant_id = tenant_id
      THEN [l EXCEPT !.status = "closed_won"] ELSE l : l \in rows }

\* routes.py:321-326: the UPDATE of the lead, a statement of its own after
\* the INSERT, and the return
convert_lead_to_client_UpdateLead(i, fault) ==
    /\ i \in DOMAIN calls
    /\ calls[i].op = "convert_lead_to_client" /\ calls[i].pc = "inserted"
    /\ LET c == calls[i]
       IN IF fault
          THEN /\ calls' = [calls EXCEPT ![i].pc = "raised", ![i].code = 500,
                                         ![i].detail = "update"]
               /\ UNCHANGED leads
          ELSE /\ leads' = CloseLead(leads, c.lead_id, c.tenant_id)
               /\ calls' = [calls EXCEPT ![i].pc = "returned", ![i].code = 201]
    /\ UNCHANGED <<clients, now, tenants, inbound, chat, req, events, outbox, lastAdmin, crm, ops>>

\* routes.py:415-470: update_client, one statement: the UPDATE of the posted
\* fields (here the phone number), or a SELECT when nothing was posted.
\* `unique` as in create_lead_Insert, for the clients table.
update_client(u, client_id, phone_number, unique) ==
    LET tenant_id == get_current_user_context(u, tenants, "none").tenant_id
        owned == client_id \in DOMAIN clients /\ clients[client_id].tenant_id = tenant_id
        phone == IF phone_number = << >> THEN "" ELSE strip(phone_number[1])
        taken == \E k \in DOMAIN clients \ {client_id} :
                     clients[k].tenant_id = tenant_id /\ clients[k].phone_number = phone
    IN /\ IF ~owned
          THEN /\ calls' = Append(calls, Call("update_client", u, tenant_id, phone, 0,
                                   client_id, "raised", 404, "Cliente no encontrado"))
               /\ UNCHANGED clients
          ELSE IF phone_number # << >> /\ unique /\ taken
          THEN /\ calls' = Append(calls, Call("update_client", u, tenant_id, phone, 0,
                                   client_id, "raised", 500, "UniqueViolationError"))
               /\ UNCHANGED clients
          ELSE /\ clients' = IF phone_number = << >> THEN clients
                             ELSE [clients EXCEPT ![client_id].phone_number = phone]
               /\ calls' = Append(calls, Call("update_client", u, tenant_id, phone, 0,
                                   client_id, "returned", 200, ""))
       /\ UNCHANGED <<now, tenants, inbound, leads, chat, req, events, outbox, lastAdmin, crm, ops>>

\* admin_routes.py:258-262: delete_tenant up to the test of the tenant's row
delete_tenant_Select(u, tenant_id) ==
    /\ calls' = Append(calls,
           IF u.role # "ceo"
           THEN Call("delete_tenant", u, tenant_id, "", 0, 0, "raised", Forbidden, "")
           ELSE IF ~\E t \in tenants : t.id = tenant_id
           THEN Call("delete_tenant", u, tenant_id, "", 0, 0, "raised", 404,
                     "Tenant not found")
           ELSE Call("delete_tenant", u, tenant_id, "", 0, 0, "found", 0, ""))
    /\ UNCHANGED <<clients, now, tenants, inbound, leads, chat, req, events, outbox, lastAdmin, crm, ops>>

\* admin_routes.py:263-264: SELECT COUNT(*) and the last-tenant test
delete_tenant_Count(i) ==
    /\ i \in DOMAIN calls
    /\ calls[i].op = "delete_tenant" /\ calls[i].pc = "found"
    /\ calls' = IF Cardinality(tenants) <= 1
                THEN [calls EXCEPT ![i].pc = "raised", ![i].code = 400,
                                   ![i].detail = "Cannot delete the last tenant"]
                ELSE [calls EXCEPT ![i].pc = "counted"]
    /\ UNCHANGED <<clients, now, tenants, inbound, leads, chat, req, events, outbox, lastAdmin, crm, ops>>

\* admin_routes.py:265-266: the DELETE and the return
delete_tenant_Delete(i) ==
    /\ i \in DOMAIN calls
    /\ calls[i].op = "delete_tenant" /\ calls[i].pc = "counted"
    /\ tenants' = {t \in tenants : t.id # calls[i].tenant_id}
    /\ calls' = [calls EXCEPT ![i].pc = "returned", ![i].code = 200]
    /\ UNCHANGED <<clients, now, inbound, leads, chat, req, events, outbox, lastAdmin, crm, ops>>

\* time passes
Tick ==
    /\ now < MaxTime
    /\ now' = now + 1
    /\ UNCHANGED <<clients, calls, crm, ops, tenants, inbound, leads, chat, req, events, outbox, lastAdmin>>

---------------------------------------------------------------------------

\* the service after start-up, over a store holding the given tenants and leads
InitOver(tenant_rows, lead_rows) ==
    /\ now = 0
    /\ tenants = tenant_rows
    /\ inbound = << >>
    /\ leads = lead_rows
    /\ chat = << >>
    /\ req = [r \in Reqs |-> IdleReq]
    /\ events = << >>
    /\ outbox = << >>
    /\ lastAdmin = AdminAnswer("none", 0, "", {}, 0, "", << >>)
    /\ crm = CrmAnswer("none", [user_id |-> "", role |-> ""], "", << >>, "none",
                       {}, 0, 0, 0, << >>)
    /\ ops = << >>
    /\ clients = << >>
    /\ calls = << >>

Init == InitOver(InitialTenants, {})

\* one step of request r; any storage or agent call may fail
Pipeline(r, bodies, ready) ==
    \E fault \in BOOLEAN :
        \/ \E b \in bodies : Receive(r, b, fault, ready)
        \/ TryInsert(r, fault)
        \/ MarkProcessing(r, fault)
        \/ EnsureLead(r, fault)
        \/ AppendUser(r, fault)
        \/ ReadHistory(r, fault)
        \/ InvokeAgent(r, fault)
        \/ AppendReply(r, fault)
        \/ MarkDone(r, fault)
        \/ HandleFailure(r, fault)

\* Concurrent deliveries with failures: the webhook source posts events of
\* one conversation, redelivering at will.
Next == \E r \in Reqs : Pipeline(r, ConcurrentBodies, TRUE)

Spec == Init /\ [][Next]_vars

\* no request is between its first and its last step
Quiet == \A q \in Reqs : req[q].pc \in {"idle", "returned", "raised"}

\* the operator (owner identity) toggling the override of the contact
OperatorOverride ==
    /\ Len(events) < MaxAdminWrites
    /\ \E t \in TenantIds :
          LET ceo == CHOOSE u \in Users : u.role = "ceo"
          IN \/ \E d \in CoreDurations :
                    toggle_human_intervention(ceo, t, "+100", TRUE, d, "none")
             \/ toggle_human_intervention(ceo, t, "+100", FALSE, << >>, "none")
             \/ remove_silence(ceo, t, "+100", "none")

\* Two deliveries of one conversation, arriving one after the other,
\* against the human-override register and the clock.
NextOverride ==
    \/ \E r \in {1, 2} : Pipeline(r, ConcurrentBodies, Quiet)
    \/ OperatorOverride
    \/ Tick

SpecOverride == Init /\ [][NextOverride]_vars

\* Two deliveries of any of the events, arriving one after the other.
NextSerial == \E r \in {1, 2} : Pipeline(r, CoreBodies, Quiet)

SpecSerial == Init /\ [][NextSerial]_vars

\* Two deliveries of bodies with missing fields, one after the other.
NextIntake == \E r \in {1, 2} : Pipeline(r, IntakeBodies, Quiet)

SpecIntake == Init /\ [][NextIntake]_vars

\* any identity calling any chat/override route for any tenant
AdminCall ==
    \E u \in Users, t \in TenantIds :
        \/ get_chat_sessions(u, t, "none")
        \/ get_chat_messages(u, t, "+100", "none")
        \/ mark_chat_session_read(u, t, "+100", "none")
        \/ /\ Len(events) + Len(outbox) < MaxAdminWrites
           /\ \/ send_chat_message(u, t, "+100", "hola", "none")
              \/ toggle_human_intervention(u, t, "+100", TRUE, << >>, "none")
              \/ toggle_human_intervention(u, t, "+100", FALSE, << >>, "none")
              \/ remove_silence(u, t, "+100", "none")

\* The admin surface over a store filled by one delivery, to tenant 7 or to
\* the default tenant.
NextAdmin ==
    \/ Pipeline(1, CoreBodies \ ConcurrentBodies, TRUE)
    \/ Pipeline(1, {b \in ConcurrentBodies : b.to_number = None}, TRUE)
    \/ AdminCall
    \/ \E i \in DOMAIN outbox, fault \in BOOLEAN : send_to_whatsapp_task(i, fault)

SpecAdmin == Init /\ [][NextAdmin]_vars

\* The operator's outbound messages: sends by every staff identity to both
\* tenants, each handed to its background task, which may fail.
MaxSends == 2

SendPhones == {"+100", "100"}

SendMessages == {"hola", "chau"}

SendCall ==
    /\ Len(outbox) < MaxSends
    /\ \E u \in Users, t \in TenantIds, phone \in SendPhones, m \in SendMessages :
           send_chat_message(u, t, phone, m, "none")

NextSend ==
    \/ SendCall
    \/ \E i \in DOMAIN outbox, fault \in BOOLEAN : send_to_whatsapp_task(i, fault)

SpecSend == Init /\ [][NextSend]_vars

\* leads written by earlier deliveries and by the CRM: one contact known to
\* both tenants and a second contact of tenant 7
StoredLeads ==
    { [id |-> 1, tenant_id |-> 1, phone_number |-> "+100", status |-> "new",
       human_handoff_requested |-> FALSE, human_override_until |-> << >>],
      [id |-> 2, tenant_id |-> 7, phone_number |-> "+100", status |-> "new",
       human_handoff_requested |-> FALSE, human_override_until |-> << >>],
      [id |-> 3, tenant_id |-> 7, phone_number |-> "+101", status |-> "new",
       human_handoff_requested |-> FALSE, human_override_until |-> << >>] }

\* the tenant_id_override query parameter: absent, 1 or 7
CoreOverrides == {<< >>, <<1>>, <<7>>}

\* The tenant resolver over every content of the tenants table (none, one
\* or both of the installed tenants) with the leads of the tenants present.
InitTenancy ==
    \E rows \in SUBSET InitialTenants :
        InitOver(rows, {l \in StoredLeads : l.tenant_id \in {t.id : t \in rows}})

NextTenancy ==
    \E u \in Identities, o \in CoreOverrides, f \in DbFaults, phone \in {"+100", "100"} :
        get_lead_context_by_phone(u, phone, o, f)

SpecTenancy == InitTenancy /\ [][NextTenancy]_vars

\* durations posted with an activation: absent, 0, positive and negative
AllDurations == {<< >>, <<0>>, <<2>>, <<-1>>}

InitRegister == InitOver(InitialTenants, StoredLeads)

\* The owner posts to the override routes for the contact +100 of tenant 7;
\* a professional of tenant 7 posts for the same contact of tenant 1.
OverrideRequest ==
    /\ Len(ops) < MaxOverrideCalls
    /\ \E fault \in BOOLEAN :
          LET ceo == CHOOSE u \in Users : u.role = "ceo"
              pro == CHOOSE u \in Users : u.role = "professional"
          IN \/ \E d \in AllDurations :
                    OverrideWrite("toggle_human_intervention", ceo, 7, "+100", TRUE, d,
                                  "none", fault)
             \/ OverrideWrite("toggle_human_intervention", ceo, 7, "+100", FALSE, << >>,
                              "none", fault)
             \/ OverrideWrite("remove_silence", ceo, 7, "+100", FALSE, << >>,
                              "none", fault)
             \/ OverrideWrite("remove_silence", pro, 1, "+100", FALSE, << >>,
                              "none", fault)

\* The human-override register under concurrent operator calls and the clock.
NextRegister ==
    \/ OverrideRequest
    \/ \E i \in DOMAIN ops, fault \in BOOLEAN : OverrideEmit(i, fault)
    \/ Tick

SpecRegister == InitRegister /\ [][NextRegister]_vars

\* number of CRM or tenant-administration calls
MaxCalls == 2

\* Concurrent create_lead calls by every staff identity.
NextLeads ==
    \/ /\ Len(calls) < MaxCalls
       /\ \E u \in Users, phone \in {"+100", "+101"} : create_lead_Select(u, phone)
    \/ \E i \in DOMAIN calls, unique \in BOOLEAN : create_lead_Insert(i, unique)

SpecLeads == Init /\ [][NextLeads]_vars

\* a client stored by an earlier call
StoredClients == << [id |-> 1, tenant_id |-> 7, phone_number |-> "+101",
                     status |-> "active"] >>

InitClients ==
    /\ now = 0
    /\ tenants = InitialTenants
    /\ inbound = << >>
    /\ leads = StoredLeads
    /\ chat = << >>
    /\ req = [r \in Reqs |-> IdleReq]
    /\ events = << >>
    /\ outbox = << >>
    /\ lastAdmin = AdminAnswer("none", 0, "", {}, 0, "", << >>)
    /\ crm = CrmAnswer("none", [user_id |-> "", role |-> ""], "", << >>, "none",
                       {}, 0, 0, 0, << >>)
    /\ ops = << >>
    /\ clients = StoredClients
    /\ calls = << >>

\* the phone numbers posted to the client routes
ClientPhones == {"+100", "+101 "}

\* The client routes called one after the other: each call starts when the
\* calls before it have answered; any statement may fail.
NextClients ==
    \/ /\ Len(calls) < MaxCalls
       /\ \A k \in DOMAIN calls : Finished(calls[k])
       /\ \E u \in Users :
             \/ \E phone \in ClientPhones : create_client_Select(u, phone)
             \/ \E lead_id \in {l.id : l \in StoredLeads} :
                    convert_lead_to_client_SelectLead(u, lead_id)
             \/ \E client_id \in 1..MaxCalls, phone_number \in {<< >>, <<"+100">>},
                      unique \in BOOLEAN :
                    update_client(u, client_id, phone_number, unique)
    \/ \E i \in DOMAIN calls, unique \in BOOLEAN, fault \in BOOLEAN :
          \/ create_client_Insert(i, unique, fault)
          \/ convert_lead_to_client_SelectClient(i, fault)
          \/ convert_lead_to_client_Insert(i, unique, fault)
          \/ convert_lead_to_client_UpdateLead(i, fault)

SpecClients == InitClients /\ [][NextClients]_vars

\* Tenant administration over a tenants table holding one or both of the
\* installed tenants: concurrent delete_tenant calls by the owner and by a
\* professional.
InitTenants ==
    \E rows \in SUBSET InitialTenants : rows # {} /\ InitOver(rows, {})

NextTenants ==
    \/ /\ Len(calls) < MaxCalls
       /\ \E u \in {v \in Users : v.role \in {"ceo", "professional"}}, t \in TenantIds :
             delete_tenant_Select(u, t)
    \/ \E i \in DOMAIN calls : delete_tenant_Count(i)
    \/ \E i \in DOMAIN calls : delete_tenant_Delete(i)

SpecTenants == InitTenants /\ [][NextTenants]_vars

---------------------------------------------------------------------------
(* Properties *)

\* the requests that carried the event key k
Submitted(k) == {r \in Reqs : req[r].pc # "idle" /\ req[r].key = k}

\* the chat rows of role `role` written for the event key k
RowsOf(k, role) ==
    {i \in DOMAIN chat :
        /\ chat[i].role = role
        /\ \E r \in Submitted(k) : chat[i].correlation_id = req[r].correlation_id}

\* no request of key k met a storage or agent failure
NoFailure(k) ==
    \A r \in Submitted(k) :
        req[r].pc \notin {"except", "raised"} /\ req[r].status # "error"

\* C1: N submissions of one (provider, provider_message_id), interleaved in
\* any way and without failure, leave exactly one user row and one assistant
\* row for the event; exactly one submission is answered ok and every other
\* one {status: duplicate, send: false}.
C1_Idempotent ==
    \A k \in {req[r].key : r \in Reqs} :
        (Submitted(k) # {} /\ NoFailure(k)) =>
            /\ Cardinality(RowsOf(k, "user")) <= 1
            /\ Cardinality(RowsOf(k, "assistant")) <= 1
            /\ (\A r \in Submitted(k) : req[r].pc = "returned") =>
                  /\ Cardinality(RowsOf(k, "user")) = 1
                  /\ Cardinality(RowsOf(k, "assistant")) = 1
                  /\ Cardinality({r \in Submitted(k) : req[r].status = "ok"}) = 1
                  /\ \A r \in Submitted(k) :
                        req[r].status # "ok" =>
                            req[r].status = "duplicate" /\ ~req[r].send

\* C1 witness: every request carried the same key, all have returned without
\* failure, and one of them was answered duplicate
C1_Witness ==
    /\ \A r \in Reqs : req[r].pc = "returned" /\ req[r].key = req[1].key
    /\ NoFailure(req[1].key)
    /\ \E r \in Reqs : req[r].status = "duplicate"

\* C2: no side effect before the ledger insert reports the event as new: a
\* step of a request that has not (yet) been told "new" -- in particular the
\* step that answers duplicate -- appends no chat row, creates or updates no
\* lead, does not invoke the agent and leaves every ledger row as it was.
C2_NoEffectBeforeNew ==
    [][\A r \in Reqs :
          (/\ req[r].pc \in {"idle", "resolved"}
           /\ req'[r] # req[r]
           /\ ~req'[r].is_new) =>
              /\ chat' = chat
              /\ leads' = leads
              /\ inbound' = inbound
              /\ ~req'[r].invoked /\ req'[r].cur = 0]_vars

\* C2 witness: a delivery was answered duplicate while the row of its key
\* was being processed by the delivery that inserted it
C2_Witness ==
    \E r \in Reqs :
        /\ req[r].status = "duplicate"
        /\ req[r].key \in DOMAIN inbound
        /\ inbound[req[r].key].status = "processing"
        /\ chat # << >>

\* the failures C5 speaks of, by the call that raised
C5Failures ==
    {"resolve_tenant", "ensure_lead_exists", "append_chat_message",
     "get_chat_history", "agent"}

\* C5: a failure while resolving the tenant, ensuring the contact, appending
\* the inbound message, reading history, invoking the agent or appending the
\* reply is caught: the ledger row goes to failed with the error detail, the
\* caller gets {status: error, send: false}, and no exception leaves
\* chat_inbound.
C5_FailuresCaught ==
    \A r \in Reqs :
        (req[r].error \in C5Failures /\ req[r].pc \in {"returned", "raised"}) =>
            /\ req[r].pc = "returned"
            /\ req[r].status = "error" /\ ~req[r].send
            /\ req[r].key \in DOMAIN inbound
            /\ inbound[req[r].key].status = "failed"
            /\ inbound[req[r].key].error = req[r].error

\* the moves of a ledger row that C6 allows
LedgerMoves ==
    {<<"received", "processing">>, <<"processing", "done">>, <<"processing", "failed">>}

\* C6: a ledger row only moves received -> processing -> done or
\* received -> processing -> failed; a row in done or failed never changes
\* again, and rows are never removed.
C6_LedgerMoves ==
    [][/\ \A k \in DOMAIN inbound :
             /\ k \in DOMAIN inbound'
             /\ inbound'[k].status # inbound[k].status =>
                    <<inbound[k].status, inbound'[k].status>> \in LedgerMoves
             /\ inbound[k].status \in {"done", "failed"} => inbound'[k] = inbound[k]
       /\ \A k \in DOMAIN inbound' :
             k \notin DOMAIN inbound => inbound'[k].status = "received"]_vars

\* C6 witness: a row is failed and a later delivery of its key has been
\* answered (as duplicate) without moving it
C6_Witness ==
    \E r, q \in Reqs :
        /\ r # q /\ req[r].key = req[q].key
        /\ req[r].status = "error" /\ req[q].status = "duplicate"
        /\ inbound[req[r].key].status = "failed"

\* C7: no request whose insert reported new ends (returns or raises) leaving
\* its ledger row in received or processing, also when mark processing,
\* mark done or mark failed itself fails.
C7_NoRowLeftOpen ==
    \A r \in Reqs :
        (req[r].is_new /\ req[r].pc \in {"returned", "raised"}) =>
            inbound[req[r].key].status \in {"done", "failed"}

\* C8: the history handed to the agent never contains the row appended for
\* the current turn, whatever was appended to the conversation in between.
C8_CurrentTurnExcluded ==
    \A r \in Reqs :
        req[r].cur # 0 =>
            \A i \in DOMAIN req[r].history : req[r].history[i].id # req[r].cur

\* the chat rows of role `role` written by request r
RowsBy(r, role) ==
    {i \in DOMAIN chat :
        chat[i].role = role /\ chat[i].correlation_id = req[r].correlation_id}

\* C3: when the override of (tenant, sender) is in force -- flag set, expiry
\* in the future -- both when a new event arrives and when the pipeline
\* reaches the agent, the agent is not invoked, no assistant row is
\* appended and the response has send = false.
C3_OverrideHoldsAgent ==
    \A r \in Reqs :
        (/\ req[r].is_new
         /\ req[r].override_on_arrival = "held"
         /\ req[r].override_at_agent = "held") =>
            /\ ~req[r].invoked
            /\ RowsBy(r, "assistant") = {}
            /\ ~req[r].send

\* C4: when the override of (tenant, sender) had lapsed -- flag still set,
\* expiry passed -- before a new event arrived and was not touched until the
\* pipeline reached the agent, then (no storage or agent failure occurring)
\* the agent runs, the reply is appended and the response is ok with
\* send = true.
C4_LapsedOverrideRunsAgent ==
    \A r \in Reqs :
        (/\ req[r].is_new /\ req[r].pc = "returned" /\ req[r].status # "error"
         /\ req[r].override_on_arrival = "lapsed"
         /\ req[r].override_at_agent = "lapsed") =>
            /\ req[r].invoked
            /\ \E i \in RowsBy(r, "assistant") : chat[i].content = req[r].output
            /\ req[r].status = "ok" /\ req[r].send

\* C4 witness: an event processed wholly after the expiry has been answered
\* while the lead still carries the flag
C4_Witness ==
    \E r \in Reqs :
        /\ req[r].is_new /\ req[r].pc = "returned"
        /\ req[r].override_on_arrival = "lapsed"
        /\ req[r].override_at_agent = "lapsed"
        /\ \E l \in leads :
              /\ l.tenant_id = req[r].tenant_id /\ l.phone_number = req[r].from_number
              /\ l.human_handoff_requested
              /\ l.human_override_until # << >> /\ l.human_override_until[1] <= now

\* C9: the tenant of an event is the one whose bot_phone_number equals
\* to_number, or tenant 1 when to_number is absent or matches none; the lead
\* ensured and the user and assistant rows written for the event carry that
\* tenant and the sender's phone.
C9_TenantOfEvent ==
    \A r \in Reqs :
        req[r].pc \notin {"idle", "raised"} =>
            LET to == req[r].to_number
                matching == {t.id : t \in {x \in tenants : x.bot_phone_number = to}}
                expected == IF to = None \/ matching = {} THEN {1} ELSE matching
                rows == RowsBy(r, "user") \cup RowsBy(r, "assistant")
            IN /\ Cardinality(expected) = 1
               /\ \A i \in rows : /\ chat[i].tenant_id \in expected
                                   /\ chat[i].from_number = req[r].from_number
               /\ (rows # {} \/ req[r].status = "ok") =>
                     \E l \in leads : /\ l.tenant_id \in expected
                                      /\ l.phone_number = req[r].from_number
               /\ req[r].status = "ok" =>
                     RowsBy(r, "user") # {} /\ RowsBy(r, "assistant") # {}

\* C9 witness: an event addressed to the bot number of tenant 7 has been
\* answered ok, its lead and both its rows standing under tenant 7
C9_Witness ==
    \E r \in Reqs :
        /\ req[r].status = "ok" /\ req[r].to_number = "+200"
        /\ \E i \in RowsBy(r, "user") : chat[i].tenant_id = 7
        /\ \E i \in RowsBy(r, "assistant") : chat[i].tenant_id = 7
        /\ \E l \in leads : l.tenant_id = 7 /\ l.phone_number = req[r].from_number

\* C10: a chat/override admin call for a tenant outside the caller's allowed
\* set is answered 403 and leaves chat rows, leads, the event bus and the
\* outbound queue as they were.
C10_ForeignTenantRejected ==
    [][(lastAdmin' # lastAdmin /\ lastAdmin'.tenant_id \notin lastAdmin'.allowed) =>
          /\ lastAdmin'.code = 403
          /\ UNCHANGED <<chat, leads, events, outbox>>]_vars

\* C10 witness: an override toggle aimed at an existing lead of a tenant the
\* caller may not address has been rejected
C10_Witness ==
    /\ lastAdmin.op = "toggle_human_intervention"
    /\ lastAdmin.code = 403
    /\ lastAdmin.tenant_id \notin lastAdmin.allowed
    /\ \E l \in leads : l.tenant_id = lastAdmin.tenant_id
    /\ chat # << >>

\* C11: get_lead_context_by_phone called with a tenant_id_override outside
\* the caller's allowed tenant set is rejected with an authorization error
\* and answers with no lead of any tenant.
C11_ForeignOverrideRejected ==
    (/\ crm.op = "get_lead_context_by_phone"
     /\ crm.tenant_id_override # << >>
     /\ crm.tenant_id_override[1] \notin crm.allowed) =>
        /\ crm.code = Forbidden
        /\ crm.lead = << >>

\* the ids of the tenants table
AllTenantIds == {t.id : t \in tenants}

\* C12: for the owner the allowed set is the set of all tenant ids; for any
\* other role it is exactly the one tenant that get_resolved_tenant_id gives
\* for the same identity in the same database state, also when the staff
\* lookup raises or finds no row.
C12_AllowedIsResolved ==
    crm.op = "get_lead_context_by_phone" =>
        IF crm.role = "ceo"
        THEN (crm.db_fault = "none" /\ tenants # {}) => crm.allowed = AllTenantIds
        ELSE crm.allowed = {crm.context_tenant}

\* C13: the resolved tenant is the tenant id of the identity's staff row when
\* such a row with a tenant id exists; otherwise the smallest tenant id of
\* the tenants table, or 1 when there is no tenant or the tenants lookup
\* fails; always one id.
C13_ResolvedTenant ==
    crm.op = "get_lead_context_by_phone" =>
        LET staff == {p \in Professionals :
                         p.user_id = crm.user_id /\ p.tenant_id # << >>}
            smallest == CHOOSE i \in AllTenantIds : \A j \in AllTenantIds : i <= j
        IN crm.context_tenant =
              IF staff # {} THEN (CHOOSE p \in staff : TRUE).tenant_id[1]
              ELSE IF tenants # {} /\ crm.db_fault # "tenants" THEN smallest
              ELSE DefaultTenant

\* the override calls whose UPDATE addresses the lead l
AppliedTo(l) ==
    {i \in DOMAIN ops :
        /\ ops[i].applied
        /\ ops[i].tenant_id = l.tenant_id
        /\ l.phone_number \in {ops[i].phone, normalize_phone(ops[i].phone)}}

\* C14: whatever durations were posted, a lead whose flag is set has an
\* expiry, and that expiry was strictly later than the clock of the
\* activation that wrote it.
C14_ActiveExpiryInFuture ==
    \A l \in leads :
        l.human_handoff_requested =>
            /\ l.human_override_until # << >>
            /\ \A i \in AppliedTo(l) :
                  (ops[i].activate /\ ops[i].until = l.human_override_until) =>
                      ops[i].until[1] > ops[i].at

\* C15: an activation stores expiry = now + duration, the duration being
\* 24 hours when none was posted; and the expiry (and flag) a lead holds are
\* those of the last override call applied to it.
C15_ExpiryOfLastActivation ==
    /\ \A i \in DOMAIN ops :
          (ops[i].applied /\ ops[i].activate) =>
              ops[i].until =
                  << ops[i].at + (IF ops[i].duration = << >> THEN DefaultDurationMs
                                  ELSE ops[i].duration[1]) >>
    /\ \A l \in leads :
          AppliedTo(l) # {} =>
              LET last == CHOOSE i \in AppliedTo(l) : \A j \in AppliedTo(l) : j <= i
              IN /\ l.human_handoff_requested = ops[last].activate
                 /\ l.human_override_until = ops[last].until

\* the call of ops' that arrived in this step addresses lead l
Addressed(call, l) ==
    /\ l.tenant_id = call.tenant_id
    /\ l.phone_number \in {call.phone, normalize_phone(call.phone)}

C17_OneEventPerCall ==
    /\ \A i \in DOMAIN ops :
          IF ops[i].code = 200
          THEN /\ ops[i].applied
               /\ ops[i].event \in DOMAIN events
               /\ LET e == events[ops[i].event]
                  IN /\ e.type = "HUMAN_OVERRIDE_CHANGED"
                     /\ e.phone_number = ops[i].phone
                     /\ e.tenant_id = ops[i].tenant_id
                     /\ e.enabled = ops[i].activate
                     /\ e.until = IF ops[i].activate THEN isoformat(ops[i].until[1])
                                                     ELSE << >>
          ELSE ops[i].event = 0
    /\ \A e \in DOMAIN events :
          Cardinality({i \in DOMAIN ops : ops[i].event = e}) = 1

\* C17 witness: an activation and a removal have both answered, the removal
\* having written before the activation published its event
C17_Witness ==
    \E i, j \in DOMAIN ops :
        /\ ops[i].status = "activated" /\ ops[j].status = "removed"
        /\ i < j /\ ops[j].event < ops[i].event
        /\ events[ops[i].event].until = isoformat(ops[i].at + DefaultDurationMs)

\* C18: no step of chat_inbound, whatever its outcome, changes the flag or
\* the expiry of a lead, and a lead it creates carries no override; a step
\* that does change them is an operator's activate, deactivate or
\* remove-silence.
C18_PipelineKeepsOverride ==
    [][((\E l \in leads : l \notin leads')
        \/ (\E l \in leads' :
               /\ l \notin leads
               /\ l.human_handoff_requested \/ l.human_override_until # << >>)) =>
          /\ req' = req
          /\ Len(events') = Len(events) + 1
          /\ events'[Len(events')].type = "HUMAN_OVERRIDE_CHANGED"]_vars

\* C18 witness: an event of a contact whose override was in force from its
\* arrival on has been answered ok, and the lead still holds flag and expiry
C18_Witness ==
    \E r \in Reqs :
        /\ req[r].pc = "returned" /\ req[r].status = "ok"
        /\ req[r].override_on_arrival = "held"
        /\ \E l \in leads :
              /\ l.tenant_id = req[r].tenant_id /\ l.phone_number = req[r].from_number
              /\ l.human_handoff_requested
              /\ l.human_override_until # << >> /\ l.human_override_until[1] > now

\* C19: the conversation log only grows at its end: every stored message
\* keeps its role, content and position, a step adds at most one message, a
\* chat_inbound request leaves at most one user and one assistant message,
\* and an accepted send_chat_message adds one assistant message.
C19_AppendOnly ==
    [][/\ Len(chat') \in {Len(chat), Len(chat) + 1}
       /\ SubSeq(chat', 1, Len(chat)) = chat
       /\ \A r \in Reqs : \A role \in {"user", "assistant"} :
             Cardinality({i \in DOMAIN chat' :
                             /\ chat'[i].role = role
                             /\ chat'[i].correlation_id = req'[r].correlation_id
                             /\ req'[r].pc # "idle"}) <= 1
       /\ (lastAdmin' # lastAdmin /\ lastAdmin'.op = "send_chat_message"
           /\ lastAdmin'.code = 200) =>
             /\ Len(chat') = Len(chat) + 1
             /\ chat'[Len(chat')].role = "assistant"
             /\ chat'[Len(chat')].tenant_id = lastAdmin'.tenant_id
             /\ chat'[Len(chat')].from_number = lastAdmin'.phone]_vars

\* C19 witness: an operator's message was stored between the user message
\* and the agent's reply of one event, and all three are in the log
C19_Witness ==
    /\ Len(chat) = 3
    /\ chat[1].role = "user" /\ chat[1].correlation_id = req[1].correlation_id
    /\ chat[2].role = "assistant" /\ chat[2].correlation_id = "uuid4"
    /\ chat[3].role = "assistant" /\ chat[3].correlation_id = req[1].correlation_id
    /\ req[1].status = "ok"

\* C20: in every response send is true exactly when status is ok; ok is
\* answered only with the reply text stored as an assistant message and the
\* ledger row in done; error and duplicate carry send = false; nothing is
\* to be sent before a response exists.
C20_SendIffOk ==
    \A r \in Reqs :
        IF req[r].pc = "returned"
        THEN /\ req[r].status \in {"ok", "error", "duplicate"}
             /\ req[r].send <=> req[r].status = "ok"
             /\ req[r].status = "ok" =>
                   /\ \E i \in RowsBy(r, "assistant") :
                         /\ chat[i].content = req[r].output
                         /\ chat[i].from_number = req[r].from_number
                   /\ inbound[req[r].key].status = "done"
        ELSE ~req[r].send

\* C20 witness: one event was answered ok with send = true and another was
\* answered error
C20_Witness ==
    \E r, q \in Reqs :
        /\ req[r].pc = "returned" /\ req[r].status = "ok" /\ req[r].send
        /\ inbound[req[r].key].status = "done"
        /\ req[q].pc = "returned" /\ req[q].status = "error" /\ ~req[q].send

\* C21: a delivery whose key has a ledger row in failed is handled like a
\* delivery of an unknown key: the insert reports it new and it is processed
\* again, not answered duplicate.
C21_FailedIsRetried ==
    [][\A r \in Reqs :
          (/\ req[r].pc = "resolved"
           /\ req'[r].pc \notin {"resolved", "raised"}
           /\ req[r].key \in DOMAIN inbound
           /\ inbound[req[r].key].status = "failed") =>
              /\ req'[r].is_new
              /\ req'[r].status # "duplicate"]_vars

\* C23: when the agent invocation failed and the request has answered, no
\* assistant message exists for the event, its ledger row is failed with the
\* error detail, the answer is {status: error, send: false}, and the user
\* message appended by the request is still stored.
C23_AgentFailure ==
    \A r \in Reqs :
        (req[r].error = "agent" /\ req[r].pc = "returned") =>
            /\ RowsBy(r, "assistant") = {}
            /\ inbound[req[r].key].status = "failed"
            /\ inbound[req[r].key].error = "agent"
            /\ req[r].status = "error" /\ ~req[r].send
            /\ req[r].cur \in DOMAIN chat
            /\ chat[req[r].cur].role = "user"
            /\ chat[req[r].cur].content = req[r].text
            /\ chat[req[r].cur].correlation_id = req[r].correlation_id

\* C23 witness: the agent failed for one event while the other event of the
\* conversation was answered ok, and the failed one has answered error
C23_Witness ==
    \E r, q \in Reqs :
        /\ req[r].error = "agent" /\ req[r].pc = "returned" /\ req[r].invoked
        /\ req[q].status = "ok"
        /\ Len(chat) = 3

\* C29: whenever toggle_human_intervention answers activated with an expiry,
\* a lead of the posted tenant and phone holds the flag with that expiry,
\* also when no lead of that phone existed in the tenant before the call.
C29_ActivationIsStored ==
    [][(events' # events /\ lastAdmin'.op = "toggle_human_intervention"
                         /\ lastAdmin'.status = "activated") =>
          \E l \in leads' :
              /\ l.tenant_id = lastAdmin'.tenant_id
              /\ l.phone_number \in {normalize_phone(lastAdmin'.phone), lastAdmin'.phone}
              /\ l.human_handoff_requested
              /\ l.human_override_until # << >>
              /\ isoformat(l.human_override_until[1]) = lastAdmin'.until]_vars

\* C22: an authorized send_chat_message appends exactly one assistant message
\* with the posted text under the posted tenant and phone, queues exactly one
\* outbound send for the background task and answers sent; the background
\* task, failing or not, changes neither the stored messages nor the answer.
C22_SendThenForget ==
    [][/\ (chat' # chat \/ Len(outbox') # Len(outbox)) =>
            /\ lastAdmin'.op = "send_chat_message"
            /\ lastAdmin'.tenant_id \in lastAdmin'.allowed
            /\ lastAdmin'.code = 200 /\ lastAdmin'.status = "sent"
            /\ Len(chat') = Len(chat) + 1
            /\ SubSeq(chat', 1, Len(chat)) = chat
            /\ chat'[Len(chat')].role = "assistant"
            /\ chat'[Len(chat')].tenant_id = lastAdmin'.tenant_id
            /\ chat'[Len(chat')].from_number = lastAdmin'.phone
            /\ Len(outbox') = Len(outbox) + 1
            /\ SubSeq(outbox', 1, Len(outbox)) = outbox
            /\ outbox'[Len(outbox')].state = "queued"
            /\ outbox'[Len(outbox')].phone = lastAdmin'.phone
            /\ outbox'[Len(outbox')].message = chat'[Len(chat')].content
       /\ (Len(outbox') = Len(outbox) /\ outbox' # outbox) =>
            /\ chat' = chat
            /\ lastAdmin' = lastAdmin]_vars

\* C22 witness: two messages were sent by the operator, the outbound send of
\* one failed and the other went out, and both stay stored
C22_Witness ==
    /\ Len(outbox) = 2 /\ Len(chat) = 2
    /\ outbox[1].state = "failed" /\ outbox[2].state = "sent"
    /\ \A i \in 1..2 : chat[i].role = "assistant" /\ chat[i].content = outbox[i].message
    /\ lastAdmin.status = "sent"

\* C24: a request whose body lacks from_number or lacks text is rejected
\* with 400 "from_number and text required", and neither a ledger row nor a
\* message of it is ever stored.
C24_IncompleteRejected ==
    \A r \in Reqs :
        (req[r].pc # "idle" /\ (req[r].from_number = "" \/ req[r].text = "")) =>
            /\ req[r].pc = "raised"
            /\ req[r].http = 400
            /\ req[r].error = "from_number and text required"
            /\ ~req[r].is_new
            /\ \A i \in DOMAIN chat : chat[i].correlation_id # req[r].correlation_id

\* C30: a delivery is answered duplicate only when an earlier delivery of
\* the same provider event (the same body) was accepted as new.
C30_DuplicateOnlyOfSameEvent ==
    \A r \in Reqs :
        req[r].status = "duplicate" =>
            \E q \in Reqs \ {r} :
                /\ req[q].correlation_id = req[r].correlation_id
                /\ req[q].from_number = req[r].from_number
                /\ req[q].text = req[r].text
                /\ req[q].is_new

\* C25: at any time the leads table holds at most one row per tenant and
\* phone number, and a create_lead call that found or met a lead of its
\* phone answers 400 without inserting.
C25_LeadPhoneUnique ==
    /\ \A a, b \in leads :
          (a.tenant_id = b.tenant_id /\ a.phone_number = b.phone_number) => a = b
    /\ \A i \in DOMAIN calls :
          (calls[i].op = "create_lead" /\ calls[i].pc = "raised") =>
              calls[i].code = 400 /\ calls[i].made = 0

\* C26: the clients table holds at most one row per tenant and phone number
\* after any sequence of create_client, convert_lead_to_client and
\* update_client calls.
C26_ClientPhoneUnique ==
    \A a, b \in DOMAIN clients :
        (/\ clients[a].tenant_id = clients[b].tenant_id
         /\ clients[a].phone_number = clients[b].phone_number) => a = b

\* C27: a convert_lead_to_client call that has answered either created the
\* client and left the lead closed_won, or created no client; a call that
\* returned normally created the client.
C27_ConvertIsAllOrNothing ==
    \A i \in DOMAIN calls :
        (calls[i].op = "convert_lead_to_client" /\ Finished(calls[i])) =>
            /\ calls[i].pc = "returned" => calls[i].made # 0
            /\ calls[i].made # 0 =>
                  \A l \in leads :
                      (l.id = calls[i].lead_id /\ l.tenant_id = calls[i].tenant_id) =>
                          l.status = "closed_won"

\* C28: the tenants table never becomes empty under delete_tenant calls.
C28_LastTenantStays == tenants # {}

=============================================================================
